---- MODULE Spec2Model ----
(***************************************************************************)
(* Replicon: webhook ingress -> NATS JetStream -> Order Worker fan-out.    *)
(*                                                                         *)
(* The model follows src/app/api/webhooks.py (ingress),                    *)
(* src/app/services/nats_service.py (bus), src/app/services/               *)
(* redis_service.py (order-map cache), src/app/workers/order_worker.py     *)
(* (worker) and src/app/models/models.py (schema).                         *)
(*                                                                         *)
(* The worker's callback runs one message at a time; the per-follower      *)
(* tasks of one NEW fan-out interleave at their await points and share the *)
(* handler's single database session.                                      *)
(***************************************************************************)
EXTENDS Integers, Sequences, FiniteSets, TLC

(***************************************************************************)
(* Bounds of the model.                                                    *)
(***************************************************************************)
MaxWebhooks == 2
MaxFaults == 1
MaxClock == 1
\* Logins the broker grants to one user.
MaxTokens == 2
\* Normalisations looked at together.
MaxNormalized == 2
\* Calls made on the order-map store in one run.
MaxCalls == 3
\* Active followers of the master whose order is fanned out.
FanOutFollowers == 51
\* Requests counted within one second.
MaxWindow == 11
\* Calls made through the circuit breaker, and how far its clock runs (seconds).
MaxBreakerCalls == 8
MaxBreakerClock == 180

(***************************************************************************)
(* Program constants.                                                      *)
(***************************************************************************)
MaxDeliver == 3
DuplicateWindow == 120 * 1000000
FailedFollowerOrderId == 0
\* config.py Settings: MAX_CONCURRENT_ORDERS, HTTP_POOL_CONNECTIONS,
\* IIFL_RATE_LIMIT_PER_SECOND.
MaxConcurrentOrders == 50
HttpPoolConnections == 100
RateLimitPerSecond == 10
\* retry.py CircuitBreaker.__init__: failure_threshold, timeout (seconds).
FailureThreshold == 5
BreakerTimeout == 60

MasterUser == "M1"
MasterAccount == "MASTER001"
BrokerOrderId == "O1"
Followers == {"F1", "F2", "F3"}
\* The webhooks the upstream broker sends for the master's order O1: event_type,
\* quantity, price, filled_quantity, status, account_id, symbol.
Payloads ==
    {[kind |-> "order_placed", qty |-> 10, price |-> 100, filled |-> 0,
      status |-> "PENDING", account |-> MasterAccount,
      symbol |-> "RELIANCE"],
     [kind |-> "order_modified", qty |-> 10, price |-> 110, filled |-> 0,
      status |-> "PENDING", account |-> MasterAccount,
      symbol |-> "RELIANCE"],
     [kind |-> "order_cancelled", qty |-> 10, price |-> 100, filled |-> 0,
      status |-> "CANCELLED", account |-> MasterAccount,
      symbol |-> "RELIANCE"]}
\* Further webhooks that pass the schema (quantity > 0, filled_quantity >= 0): a
\* modification that raises the quantity after a partial fill, fills, a webhook
\* of an account that no master has, and one that names another symbol.
IngressPayloads ==
    Payloads \cup
    {[kind |-> "order_modified", qty |-> 20, price |-> 100, filled |-> 15,
      status |-> "PARTIAL", account |-> MasterAccount,
      symbol |-> "RELIANCE"],
     [kind |-> "order_filled", qty |-> 10, price |-> 100, filled |-> 10,
      status |-> "FILLED", account |-> MasterAccount,
      symbol |-> "RELIANCE"],
     [kind |-> "order_placed", qty |-> 10, price |-> 100, filled |-> 0,
      status |-> "PENDING", account |-> "UNKNOWN",
      symbol |-> "RELIANCE"],
     [kind |-> "order_modified", qty |-> 10, price |-> 100, filled |-> 0,
      status |-> "OPEN", account |-> MasterAccount, symbol |-> "TCS"]}
PublishOutcomes == {"ok", "fail"}
\* Follower F2 as the users and follower_relationships tables hold it:
\* ratio (in hundredths) and users.is_active.
FollowerConfigs ==
    {[ratio |-> 200, userActive |-> TRUE],
     [ratio |-> 1, userActive |-> TRUE],
     [ratio |-> 200, userActive |-> FALSE]}
BrokerResponses == {"ok", "rejected", "http429", "http5xx", "network"}
AuthResponses == {"ok", "refused"}

VARIABLES
    now,        \* wall clock, in microseconds (datetime.utcnow().timestamp())
    hooks,      \* number of webhooks received so far
    stream,     \* JetStream stream with the durable consumer's state per message
    orders,     \* table orders; committed = FALSE: flushed in the worker's session only
    maps,       \* table order_maps (committed rows)
    audits,     \* table audit_logs (committed REPLICATION_* rows)
    redisMap,   \* cache: entries of the keys order:map:{master_order_id}
    broker,     \* what the follower broker has seen
    nextId,     \* the database's id sequence
    wpc,        \* where the worker's callback is
    cur,        \* index in stream of the message the callback is processing
    task,       \* the per-follower tasks of the running fan-out
    queue,      \* mapping entries a MODIFY/CANCEL handler still has to visit
    counts,     \* success_count / failed_count of the running fan-out
    faults,     \* number of failures so far (broker, cache, database, worker, ack-wait)
    rel,        \* table follower_relationships of the master
    users,      \* table users (the master and the followers)
    http,       \* the ingress's exchanges so far: publish outcome and response status
    client,     \* the broker client's call in progress, with its retry loop
    tokenCache, \* cache: the value of the key iifl:token:{user_id} (0: no key)
    session,    \* broker side: the tokens it accepts for each user
    issued,     \* broker side: number of logins it has answered with a token, per user
    caller,     \* the concurrent callers of get_iifl_token and their broker call
    req,        \* the ingress's concurrent requests, each between its select and its commit
    normed,     \* the NormalizedOrderEvents built so far, with their inputs
    calls,      \* the calls made on the order-map store so far, in order
    calc,       \* the last follower quantity computed, with its inputs
    gate,       \* the fan-out's place_order calls: waiting for a connection, on the wire,
                \* and the requests sent in the current second
    breaker,    \* a CircuitBreaker with its clock and the calls going through it
    shut,       \* OrderWorker.stop(): how far it is, and the broker client's state
    svc         \* the module globals _nats_service / _redis_service and their callers

\* The broker client alone, and the token cache with its callers.
sideVars == <<client, tokenCache, session, issued, caller>>

\* Ingress, bus, database, order-map cache and worker.
coreVars == <<now, hooks, stream, orders, maps, audits, redisMap, broker, nextId,
              wpc, cur, task, queue, counts, faults, rel, users, http>>

\* Concurrent ingress requests, normalisation, the order-map store used in
\* sequence, the follower quantity, and the fan-out's broker calls.
auxVars == <<req, normed, calls, calc, gate>>

\* The circuit breaker, the worker's shutdown, and the service singletons.
lateVars == <<breaker, shut, svc>>

vars == <<coreVars, sideVars, auxVars, lateVars>>

(***************************************************************************)
(* Pure helpers.                                                           *)
(***************************************************************************)

\* webhooks.py: which bus event a webhook kind is published as.
EventOf(k) ==
    CASE k = "order_placed" -> "order.new"
      [] k = "order_modified" -> "order.modified"
      [] k = "order_cancelled" -> "order.cancelled"

\* nats_service.py publish_order_event: the default idempotency key.
DefaultKey(mid, ev, t) == <<mid, ev, t>>

IdempotencyKey(mid, ev, t) == DefaultKey(mid, ev, t)

\* JetStream duplicate detection on the Nats-Msg-Id header.
IsDuplicate(s, key, t) ==
    \E i \in 1..Len(s) : s[i].key = key /\ t - s[i].at < DuplicateWindow

Publish(s, ev, mid, price, t) ==
    LET key == IdempotencyKey(mid, ev, t) IN
    IF IsDuplicate(s, key, t) THEN s
    ELSE Append(s, [kind |-> ev, mid |-> mid, key |-> key, at |-> t,
                    price |-> price, deliv |-> 0, st |-> "new", again |-> FALSE,
                    reply |-> "none"])

\* order_worker.py execute_follower_order: int(master_order.quantity * ratio),
\* ratio a DECIMAL(5,2) held in hundredths.
FollowerQuantity(qty, ratio) == (qty * ratio) \div 100

\* A variant of the quantity guard that lets a zero quantity through.
SkipsQuantityNegativeOnly(q) == q < 0

\* order_worker.py execute_follower_order: if follower_quantity <= 0: return None
SkipsQuantity(q) == q <= 0

\* normal_client.py place_order: the exception a broker response ends as, after
\* the retry decorator (only IIFLRateLimitError is retried; a persistent 429
\* leaves it as IIFLRateLimitError).
PlaceOrderRaises(resp) ==
    CASE resp = "ok" -> "none"
      [] resp = "rejected" -> "IIFLOrderError"
      [] resp = "http429" -> "IIFLRateLimitError"
      [] resp = "http5xx" -> "IIFLOrderError"
      [] resp = "network" -> "IIFLOrderError"

\* normal_client.py modify_order / cancel_order: every failure is IIFLOrderError.
ChangeOrderRaises(resp) ==
    IF resp = "ok" THEN "none" ELSE "IIFLOrderError"

\* order_worker.py execute_follower_order: which except clause records a FAILED map.
StoresFailedMap(exc) == exc = "IIFLOrderError"

\* redis_service.py get_order_mapping
GetOrderMapping(r, mid) == {e \in r : e.m = mid}

\* A variant of the merge that adds the entry without replacing the follower's
\* earlier one.
MergedMappingKeepingOld(snap, mid, f, oid) ==
    snap \cup {[m |-> mid, f |-> f, oid |-> oid]}

\* redis_service.py set_order_mapping, its write half: the snapshot read earlier
\* with this follower's entry replaced, stored as the whole value of the key.
MergedMapping(snap, mid, f, oid) ==
    {e \in snap : e.f # f} \cup {[m |-> mid, f |-> f, oid |-> oid]}

SetJson(r, mid, value) == {e \in r : e.m # mid} \cup value

\* models.py OrderMap.follower_order_id = ForeignKey("orders.id"), nullable=False
ForeignKeyHolds(os, oid) == \E o \in os : o.id = oid

Committed(os) == {[o EXCEPT !.committed = TRUE] : o \in os}
RolledBack(os) == {o \in os : o.committed}

MasterOrderRow(os) ==
    {o \in os : o.committed /\ o.boid = BrokerOrderId /\ o.user = MasterUser}

\* order_worker.py handle_new_order: the relationships the fan-out selects.
ActiveAutoFollow(rl) == {f \in Followers : rl[f].active /\ rl[f].auto}

IdleTask == [pc |-> "none", oid |-> 0, snap |-> {}, out |-> "none"]
DoneTask(out, oid) == [pc |-> "done", oid |-> oid, snap |-> {}, out |-> out]
NoTasks == [f \in Followers |-> IdleTask]

\* order_worker.py handle_new_order: success_count and failed_count.
SuccessCount(tk, fs) == Cardinality({f \in fs : tk[f].out = "ok" /\ tk[f].oid # 0})
FailedCount(tk, fs) == Cardinality(fs) - SuccessCount(tk, fs)

(***************************************************************************)
(* Initial state.                                                          *)
(***************************************************************************)
Callers == {"t1", "t2"}
\* The users whose tokens are asked for.
TokenUsers == {"F1", "F2"}

NoCall == [op |-> "none", pc |-> "idle", sent |-> 0, hist |-> <<>>, out |-> "none",
           slept |-> <<>>]

SideInit ==
    /\ client = NoCall
    /\ tokenCache = [u \in Followers |-> 0]
    /\ session = [u \in Followers |-> {}]
    /\ issued = [u \in Followers |-> 0]
    /\ caller = [c \in Callers |-> [pc |-> "idle", user |-> "F1", token |-> 0, out |-> "none"]]

Requests == {"r1", "r2"}
NoRequest == [pc |-> "idle", w |-> [kind |-> "none"], found |-> FALSE]
NoQuantity == [strategy |-> "none", out |-> 0]

AuxInit ==
    /\ req = [r \in Requests |-> NoRequest]
    /\ normed = <<>>
    /\ calls = <<>>
    /\ calc = NoQuantity
    /\ gate = [waiting |-> 0, wire |-> 0, window |-> 0]

\* The services kept in a module global, and the coroutines that ask for them:
\* main.py lifespan at startup and a request handler.
Services == {"nats", "redis"}
Getters == {"lifespan", "request"}

\* Coroutines that call through the one CircuitBreaker.
BreakerCallers == {"A", "B"}

\* retry.py CircuitBreaker.__init__, and no call in progress.  invoked and
\* rejected count the calls that reached func and the calls refused; streak is
\* the number of counted failures since the last call that returned.  The
\* worker is running, its broker client open; used counts the requests made on
\* the client after it was closed.  Both service globals are None.
LateInit ==
    /\ breaker = [state |-> "closed", failure_count |-> 0, last_failure_time |-> 0,
                  clock |-> 0,
                  pc |-> [c \in BreakerCallers |-> "idle"],
                  trial |-> [c \in BreakerCallers |-> FALSE],
                  out |-> [c \in BreakerCallers |-> "none"],
                  invoked |-> 0, rejected |-> 0, streak |-> 0]
    /\ shut = [pc |-> "running", closed |-> FALSE, used |-> 0]
    /\ svc = [s \in Services |->
                [global |-> "None", connected |-> FALSE,
                 pc |-> [c \in Getters |-> "idle"],
                 got |-> [c \in Getters |-> "nothing"]]]

Init ==
    /\ now = 0
    /\ hooks = 0
    /\ stream = <<>>
    /\ orders = {}
    /\ maps = {}
    /\ audits = {}
    /\ redisMap = {}
    /\ broker = [calls |-> [f \in Followers |-> 0],
                 placed |-> [f \in Followers |-> 0],
                 modify |-> [f \in Followers |-> 0],
                 cancel |-> [f \in Followers |-> 0]]
    /\ nextId = 1
    /\ wpc = "idle"
    /\ cur = 0
    /\ task = NoTasks
    /\ queue = {}
    /\ counts = [success |-> 0, failed |-> 0]
    /\ faults = 0
    /\ \E c \in FollowerConfigs :
         /\ rel = [f \in Followers |->
                    CASE f = "F1" -> [ratio |-> 100, active |-> TRUE, auto |-> TRUE]
                      [] f = "F2" -> [ratio |-> c.ratio, active |-> TRUE, auto |-> TRUE]
                      [] f = "F3" -> [ratio |-> 100, active |-> TRUE, auto |-> FALSE]]
         /\ users = [u \in Followers \cup {MasterUser} |->
                      [active |-> IF u = "F2" THEN c.userActive ELSE TRUE]]
    /\ http = <<>>
    /\ SideInit
    /\ AuxInit
    /\ LateInit

(***************************************************************************)
(* webhooks.py receive_blaze_order_webhook, for broker order O1: find the  *)
(* master by account id, upsert the master Order, publish, respond.        *)
(***************************************************************************)
\* Lines 147-160: select(User).where(role == MASTER, iifl_account_id == account_id)
MasterByAccount(acc) == IF acc = MasterAccount THEN {MasterUser} ELSE {}

\* Lines 197-204: the status an existing master Order takes from the webhook.
MasterStatus(old, st) ==
    CASE st \in {"COMPLETE", "FILLED"} -> "FILLED"
      [] st \in {"CANCELLED", "CANCELED"} -> "CANCELLED"
      [] st = "REJECTED" -> "REJECTED"
      [] OTHER -> old

\* A variant of the upsert that inserts a row at every webhook.
UpsertMasterAlwaysInserting(os, id, w) ==
    os \cup {[id |-> id, user |-> MasterUser, isMaster |-> TRUE, master |-> 0,
              boid |-> BrokerOrderId, symbol |-> w.symbol, qty |-> w.qty, filled |-> w.filled,
              price |-> w.price, status |-> "PENDING", committed |-> TRUE]}

\* A variant of the update branch that copies every field of the webhook.
UpsertMasterOverwriting(os, id, w) ==
    IF MasterOrderRow(os) = {}
    THEN os \cup {[id |-> id, user |-> MasterUser, isMaster |-> TRUE, master |-> 0,
                   boid |-> BrokerOrderId, symbol |-> w.symbol, qty |-> w.qty,
                   filled |-> w.filled,
                   price |-> w.price, status |-> "PENDING", committed |-> TRUE]}
    ELSE {IF o \in MasterOrderRow(os)
          THEN [o EXCEPT !.filled = w.filled, !.status = MasterStatus(@, w.status),
                         !.symbol = w.symbol, !.qty = w.qty, !.price = w.price]
          ELSE o : o \in os}

\* Lines 162-209: create the master Order, or update the existing one's
\* filled_quantity and status (its quantity and price are left as stored).
UpsertMaster(os, id, w) ==
    IF MasterOrderRow(os) = {}
    THEN os \cup {[id |-> id, user |-> MasterUser, isMaster |-> TRUE, master |-> 0,
                   boid |-> BrokerOrderId, symbol |-> w.symbol, qty |-> w.qty, filled |-> w.filled,
                   price |-> w.price, status |-> "PENDING", committed |-> TRUE]}
    ELSE {IF o \in MasterOrderRow(os)
          THEN [o EXCEPT !.filled = w.filled, !.status = MasterStatus(@, w.status)]
          ELSE o : o \in os}

\* Lines 232-246: the kinds that are published.
Published(k) == k \in {"order_placed", "order_modified", "order_cancelled"}

Response(code, pub) == [code |-> code, publish |-> pub]

\* Lines 280-304: except Exception: ... raise HTTPException(status_code=500)
PublishFailureStatus == "500"

\* dt: the time that has passed since the previous webhook; pub: whether the
\* bus accepts the publish.
Webhook(w, dt, pub) ==
    /\ hooks < MaxWebhooks
    /\ now + dt <= MaxClock
    /\ now' = now + dt
    /\ hooks' = hooks + 1
    /\ IF MasterByAccount(w.account) = {}
       THEN /\ http' = Append(http, Response("404", "none"))
            /\ UNCHANGED <<orders, nextId, stream>>
       ELSE /\ orders' = UpsertMaster(orders, nextId, w)
            /\ nextId' = IF Cardinality(orders') > Cardinality(orders)
                         THEN nextId + 1 ELSE nextId
            /\ IF ~Published(w.kind)
               THEN /\ stream' = stream
                    /\ http' = Append(http, Response("200", "none"))
               ELSE IF pub = "ok"
               THEN /\ LET mo == CHOOSE o \in MasterOrderRow(orders') : TRUE
                       IN stream' = Publish(stream, EventOf(w.kind), mo.id, w.price, now')
                    /\ http' = Append(http, Response("200", "ok"))
               ELSE /\ stream' = stream
                    /\ http' = Append(http, Response(PublishFailureStatus, "fail"))
    /\ UNCHANGED <<maps, audits, redisMap, broker, wpc, cur, task, queue,
                   counts, faults, rel, users, sideVars, auxVars, lateVars>>

\* masters_endpoints.py delete_master: soft delete; the master's relationships
\* are deactivated with it.
DeleteMaster ==
    /\ users[MasterUser].active
    /\ users' = [users EXCEPT ![MasterUser].active = FALSE]
    /\ rel' = [f \in Followers |-> [rel[f] EXCEPT !.active = FALSE]]
    /\ UNCHANGED <<now, hooks, stream, orders, maps, audits, redisMap, broker, nextId,
                   wpc, cur, task, queue, counts, faults, http, sideVars, auxVars, lateVars>>

(***************************************************************************)
(* The durable consumer (nats_service.py subscribe_order_events: manual    *)
(* ack, ack_wait 30 s, max_deliver 3) and process_order_event's ack / nak. *)
(***************************************************************************)
Redeliverable(msg) == IF msg.deliv < MaxDeliver THEN "redeliver" ELSE "dropped"

\* msg.ack()
Acked(s, i) ==
    [s EXCEPT ![i].st = IF s[i].again THEN "redeliver" ELSE "acked",
              ![i].again = FALSE, ![i].reply = "ack"]

\* msg.nak(delay=5)
Naked(s, i) ==
    [s EXCEPT ![i].st = IF s[i].again THEN "redeliver" ELSE Redeliverable(s[i]),
              ![i].again = FALSE, ![i].reply = "nak"]

\* No reply at all: the server's ack_wait timer redelivers.
Unanswered(s, i) ==
    [s EXCEPT ![i].st = IF s[i].again THEN "redeliver" ELSE Redeliverable(s[i]),
              ![i].again = FALSE]

\* First deliveries follow stream order; redeliveries come whenever they are due.
Deliverable(s, i) ==
    \/ s[i].st = "redeliver"
    \/ s[i].st = "new" /\ \A j \in 1..(i - 1) : s[j].st # "new"

Deliver(i) ==
    /\ wpc = "idle"
    /\ Deliverable(stream, i)
    /\ stream' = [stream EXCEPT ![i].st = "inflight", ![i].deliv = @ + 1,
                                ![i].reply = "none"]
    /\ cur' = i
    /\ wpc' = "recv"
    /\ UNCHANGED <<now, hooks, orders, maps, audits, redisMap, broker, nextId,
                   task, queue, counts, faults, rel, users, http, sideVars, auxVars, lateVars>>

\* The key order:map:{master_order_id} leaves the cache: its 7-day TTL
\* (set_order_mapping, expire=7 * 24 * 3600) runs out, or the key is deleted
\* (delete_order_mapping) or evicted.
MappingExpires ==
    /\ faults < MaxFaults
    /\ redisMap # {}
    /\ \E mid \in {e.m : e \in redisMap} : redisMap' = {e \in redisMap : e.m # mid}
    /\ faults' = faults + 1
    /\ UNCHANGED <<now, hooks, stream, orders, maps, audits, nextId, broker,
                   wpc, cur, task, queue, counts, rel, users, http, sideVars, auxVars, lateVars>>

\* The handler is still running when ack_wait runs out: the server sends the
\* message again, and the copy waits in the subscription's queue.
AckWaitExpires ==
    /\ wpc # "idle"
    /\ faults < MaxFaults
    /\ ~stream[cur].again
    /\ stream[cur].deliv < MaxDeliver
    /\ stream' = [stream EXCEPT ![cur].again = TRUE]
    /\ faults' = faults + 1
    /\ UNCHANGED <<now, hooks, orders, maps, audits, redisMap, broker, nextId,
                   wpc, cur, task, queue, counts, rel, users, http, sideVars, auxVars, lateVars>>

\* The worker process dies: its session's uncommitted rows are gone, the message
\* stays unacknowledged.
WorkerCrash ==
    /\ wpc # "idle"
    /\ faults < MaxFaults
    /\ faults' = faults + 1
    /\ orders' = RolledBack(orders)
    /\ stream' = Unanswered(stream, cur)
    /\ wpc' = "idle"
    /\ cur' = 0
    /\ task' = NoTasks
    /\ queue' = {}
    /\ counts' = [success |-> 0, failed |-> 0]
    /\ UNCHANGED <<now, hooks, maps, audits, redisMap, broker, nextId, rel, users, http, sideVars, auxVars, lateVars>>

\* process_order_event: the handler returned; ack.
Finish(s) ==
    /\ stream' = s
    /\ wpc' = "idle"
    /\ cur' = 0
    /\ task' = NoTasks
    /\ queue' = {}
    /\ counts' = [success |-> 0, failed |-> 0]

(***************************************************************************)
(* order_worker.py handle_new_order and execute_follower_order.            *)
(***************************************************************************)
CurMid == stream[cur].mid

\* db.get(Order, id) in the worker's session: committed rows and its own flushes.
GetOrder(os, id) == {o \in os : o.id = id}

FanOut == {f \in Followers : task[f].pc # "none"}

\* Message data that is not JSON.
NotJson == "<not json>"

\* nats_service.py parse_order_event: json.loads(message.data.decode()); None
\* when it raises. TRUE when a dict comes back.
ParseOrderEvent(msg) == msg.kind # NotJson

\* A variant of the dispatch that takes a fill for a cancellation.
HandlerOfFillAsCancel(kind) ==
    CASE kind = "order.new" -> "new"
      [] kind = "order.modified" -> "modify"
      [] kind \in {"order.cancelled", "order.filled"} -> "cancel"
      [] OTHER -> "none"

\* process_order_event, lines 145-153: "order.new" in event_type, elif
\* "order.modified" in event_type, elif "order.cancelled" in event_type, else
\* a warning.
HandlerOf(kind) ==
    CASE kind = "order.new" -> "new"
      [] kind = "order.modified" -> "modify"
      [] kind = "order.cancelled" -> "cancel"
      [] OTHER -> "none"

HandleNewStart ==
    /\ wpc = "recv"
    /\ HandlerOf(stream[cur].kind) = "new"
    /\ LET fs == ActiveAutoFollow(rel) IN
       IF GetOrder(orders, CurMid) = {} \/ fs = {}
       THEN /\ Finish(Acked(stream, cur))
            /\ UNCHANGED audits
       ELSE /\ audits' = audits \cup {[type |-> "REPLICATION_STARTED", master |-> CurMid,
                                      total |-> Cardinality(fs), success |-> 0,
                                      failed |-> 0]}
            /\ task' = [f \in Followers |->
                          IF f \in fs THEN [IdleTask EXCEPT !.pc = "init"] ELSE IdleTask]
            /\ wpc' = "fanout"
            /\ UNCHANGED <<stream, cur, queue, counts>>
    /\ UNCHANGED <<now, hooks, orders, maps, redisMap, broker, nextId, faults, rel, users, http, sideVars, auxVars, lateVars>>

\* Lines 282-319: load the follower, scale the quantity, get a token, place the order.
TaskBegin(f, auth, resp) ==
    /\ wpc = "fanout"
    /\ task[f].pc = "init"
    /\ LET mo == CHOOSE o \in GetOrder(orders, CurMid) : TRUE
           q == FollowerQuantity(mo.qty, rel[f].ratio)
           exc == PlaceOrderRaises(resp)
       IN
       IF ~users[f].active
       THEN /\ task' = [task EXCEPT ![f] = DoneTask("skip_inactive", 0)]
            /\ UNCHANGED <<broker, faults>>
       ELSE IF SkipsQuantity(q)
       THEN /\ task' = [task EXCEPT ![f] = DoneTask("skip_quantity", 0)]
            /\ UNCHANGED <<broker, faults>>
       ELSE IF auth # "ok"
       THEN /\ faults < MaxFaults
            /\ faults' = faults + 1
            /\ task' = [task EXCEPT ![f] = DoneTask("IIFLAuthenticationError", 0)]
            /\ UNCHANGED broker
       ELSE /\ ~shut.closed
            /\ exc # "none" => faults < MaxFaults
            /\ faults' = IF exc # "none" THEN faults + 1 ELSE faults
            /\ broker' = [broker EXCEPT !.calls[f] = @ + 1,
                                        !.placed[f] = IF exc = "none" THEN @ + 1 ELSE @]
            /\ task' = [task EXCEPT ![f] =
                          IF exc = "none" THEN [@ EXCEPT !.pc = "placed"]
                          ELSE IF StoresFailedMap(exc) THEN [@ EXCEPT !.pc = "failmap"]
                          ELSE DoneTask(exc, 0)]
    /\ UNCHANGED <<now, hooks, stream, orders, maps, audits, redisMap, nextId,
                   wpc, cur, queue, counts, rel, users, http, sideVars, auxVars, lateVars>>

\* A variant of the follower Order that leaves master_order_id NULL (0).
FollowerOrderRowNoParent(mo, f, id, q) ==
    [id |-> id, user |-> f, isMaster |-> FALSE, master |-> 0,
     boid |-> "B", symbol |-> mo.symbol, qty |-> q, filled |-> 0,
     price |-> mo.price, status |-> "SUBMITTED", committed |-> FALSE]

\* Lines 322-334: Order(user_id=follower_user.id, master_order_id=master_order.id,
\* is_master_order=False, ..., quantity=follower_quantity, status=SUBMITTED)
FollowerOrderRow(mo, f, id, q) ==
    [id |-> id, user |-> f, isMaster |-> FALSE, master |-> mo.id,
     boid |-> "B", symbol |-> mo.symbol, qty |-> q, filled |-> 0,
     price |-> mo.price, status |-> "SUBMITTED", committed |-> FALSE]

\* Lines 321-336: db.add(follower_order); await db.flush()
TaskFlush(f) ==
    /\ wpc = "fanout"
    /\ task[f].pc = "placed"
    /\ LET mo == CHOOSE o \in GetOrder(orders, CurMid) : TRUE IN
       orders' = orders \cup
           {FollowerOrderRow(mo, f, nextId, FollowerQuantity(mo.qty, rel[f].ratio))}
    /\ nextId' = nextId + 1
    /\ task' = [task EXCEPT ![f] = [@ EXCEPT !.pc = "flushed", !.oid = nextId]]
    /\ UNCHANGED <<now, hooks, stream, maps, audits, redisMap, broker,
                   wpc, cur, queue, counts, faults, rel, users, http, sideVars, auxVars, lateVars>>

\* redis_service.py set_order_mapping, line 200: mapping = await self.get_json(key) or {}
TaskMapRead(f) ==
    /\ wpc = "fanout"
    /\ task[f].pc = "flushed"
    /\ task' = [task EXCEPT ![f] =
                  [@ EXCEPT !.pc = "read", !.snap = GetOrderMapping(redisMap, CurMid)]]
    /\ UNCHANGED <<now, hooks, stream, orders, maps, audits, redisMap, broker, nextId,
                   wpc, cur, queue, counts, faults, rel, users, http, sideVars, auxVars, lateVars>>

\* redis_service.py set_order_mapping, lines 203-209: add the entry, set_json the whole value
TaskMapWrite(f) ==
    /\ wpc = "fanout"
    /\ task[f].pc = "read"
    /\ redisMap' = SetJson(redisMap, CurMid,
                           MergedMapping(task[f].snap, CurMid, f, task[f].oid))
    /\ task' = [task EXCEPT ![f] = [@ EXCEPT !.pc = "mapped", !.snap = {}]]
    /\ UNCHANGED <<now, hooks, stream, orders, maps, audits, broker, nextId,
                   wpc, cur, queue, counts, faults, rel, users, http, sideVars, auxVars, lateVars>>

\* The cache write raises CacheWriteError: execute_follower_order returns None; the
\* Order it flushed stays in the session.
TaskMapWriteFails(f) ==
    /\ wpc = "fanout"
    /\ task[f].pc = "read"
    /\ faults < MaxFaults
    /\ faults' = faults + 1
    /\ task' = [task EXCEPT ![f] = DoneTask("CacheWriteError", 0)]
    /\ UNCHANGED <<now, hooks, stream, orders, maps, audits, redisMap, broker, nextId,
                   wpc, cur, queue, counts, rel, users, http, sideVars, auxVars, lateVars>>

\* Session.commit() with one more order_maps row: the row's foreign key is checked;
\* on a violation the whole transaction of the shared session is rolled back.
CommitWithMap(row) ==
    IF ForeignKeyHolds(orders, row.fo)
    THEN /\ maps' = maps \cup {row}
         /\ orders' = Committed(orders)
    ELSE /\ maps' = maps
         /\ orders' = RolledBack(orders)

\* Lines 346-367: db.add(order_map SUCCESS); await db.commit(); return follower_order.id
TaskCommit(f) ==
    /\ wpc = "fanout"
    /\ task[f].pc = "mapped"
    /\ CommitWithMap([id |-> nextId, m |-> CurMid, f |-> f, fo |-> task[f].oid,
                      status |-> "SUCCESS"])
    /\ nextId' = nextId + 1
    /\ task' = [task EXCEPT ![f] =
                  IF ForeignKeyHolds(orders, task[f].oid)
                  THEN DoneTask("ok", task[f].oid)
                  ELSE DoneTask("IntegrityError", 0)]
    /\ UNCHANGED <<now, hooks, stream, audits, redisMap, broker,
                   wpc, cur, queue, counts, faults, rel, users, http, sideVars, auxVars, lateVars>>

\* Lines 369-375 and store_failed_order_map: OrderMap(follower_order_id=0, FAILED),
\* commit; an exception of the commit is logged and swallowed.
TaskStoreFailed(f) ==
    /\ wpc = "fanout"
    /\ task[f].pc = "failmap"
    /\ CommitWithMap([id |-> nextId, m |-> CurMid, f |-> f, fo |-> FailedFollowerOrderId,
                      status |-> "FAILED"])
    /\ nextId' = nextId + 1
    /\ task' = [task EXCEPT ![f] = DoneTask("IIFLOrderError", 0)]
    /\ UNCHANGED <<now, hooks, stream, audits, redisMap, broker,
                   wpc, cur, queue, counts, faults, rel, users, http, sideVars, auxVars, lateVars>>

\* Lines 232-236: gather returned; count.
NewGathered ==
    /\ wpc = "fanout"
    /\ \A f \in FanOut : task[f].pc = "done"
    /\ counts' = [success |-> SuccessCount(task, FanOut),
                  failed |-> FailedCount(task, FanOut)]
    /\ wpc' = "audit"
    /\ UNCHANGED <<now, hooks, stream, orders, maps, audits, redisMap, broker, nextId,
                   cur, task, queue, faults, rel, users, http, sideVars, auxVars, lateVars>>

CompletedAudit ==
    [type |-> "REPLICATION_COMPLETED", master |-> CurMid,
     total |-> Cardinality(FanOut), success |-> counts.success, failed |-> counts.failed]

\* Lines 238-252, then process_order_event acks.
NewAuditCommit ==
    /\ wpc = "audit"
    /\ audits' = audits \cup {CompletedAudit}
    /\ orders' = Committed(orders)
    /\ Finish(Acked(stream, cur))
    /\ UNCHANGED <<now, hooks, maps, redisMap, broker, nextId, faults, rel, users, http, sideVars, auxVars, lateVars>>

\* The commit of line 252 raises (database unreachable): handle_new_order re-raises,
\* process_order_event naks with a delay.
NewAuditCommitFails ==
    /\ wpc = "audit"
    /\ faults < MaxFaults
    /\ faults' = faults + 1
    /\ orders' = RolledBack(orders)
    /\ Finish(Naked(stream, cur))
    /\ UNCHANGED <<now, hooks, maps, audits, redisMap, broker, nextId, rel, users, http, sideVars, auxVars, lateVars>>

(***************************************************************************)
(* order_worker.py handle_modify_order / handle_cancel_order.              *)
(***************************************************************************)
\* A variant of the handler that replicates the master order when it finds no
\* mapping, instead of returning.
HandleChangeStartFanningOut ==
    /\ wpc = "recv"
    /\ stream[cur].kind \in {"order.modified", "order.cancelled"}
    /\ LET mapping == GetOrderMapping(redisMap, CurMid) IN
       IF mapping = {}
       THEN /\ task' = [f \in Followers |->
                          IF f \in ActiveAutoFollow(rel)
                          THEN [IdleTask EXCEPT !.pc = "init"] ELSE IdleTask]
            /\ wpc' = "fanout"
            /\ UNCHANGED <<stream, cur, queue, counts>>
       ELSE /\ queue' = mapping
            /\ wpc' = IF stream[cur].kind = "order.modified" THEN "modify" ELSE "cancel"
            /\ UNCHANGED <<stream, cur, task, counts>>
    /\ UNCHANGED <<now, hooks, orders, maps, audits, redisMap, broker, nextId,
                   faults, rel, users, http, sideVars, auxVars, lateVars>>

\* A variant of the handler that raises when it finds no mapping, so that
\* process_order_event naks.
HandleChangeStartRaising ==
    /\ wpc = "recv"
    /\ stream[cur].kind \in {"order.modified", "order.cancelled"}
    /\ LET mapping == GetOrderMapping(redisMap, CurMid) IN
       IF mapping = {}
       THEN Finish(Naked(stream, cur))
       ELSE /\ queue' = mapping
            /\ wpc' = IF stream[cur].kind = "order.modified" THEN "modify" ELSE "cancel"
            /\ UNCHANGED <<stream, cur, task, counts>>
    /\ UNCHANGED <<now, hooks, orders, maps, audits, redisMap, broker, nextId,
                   faults, rel, users, http, sideVars, auxVars, lateVars>>

\* Lines 394-401 and 488-495: no mapping in the cache: log, return (ack);
\* otherwise visit every entry.
HandleChangeStart ==
    /\ wpc = "recv"
    /\ HandlerOf(stream[cur].kind) \in {"modify", "cancel"}
    /\ LET mapping == GetOrderMapping(redisMap, CurMid) IN
       IF mapping = {}
       THEN Finish(Acked(stream, cur))
       ELSE /\ queue' = mapping
            /\ wpc' = HandlerOf(stream[cur].kind)
            /\ UNCHANGED <<stream, cur, task, counts>>
    /\ UNCHANGED <<now, hooks, orders, maps, audits, redisMap, broker, nextId,
                   faults, rel, users, http, sideVars, auxVars, lateVars>>

\* modify_follower_order
ModifyFollower(e, auth, resp) ==
    /\ wpc = "modify"
    /\ e \in queue
    /\ queue' = queue \ {e}
    /\ IF GetOrder(orders, e.oid) = {}
       THEN UNCHANGED <<orders, broker, faults>>
       ELSE IF auth # "ok"
       THEN /\ faults < MaxFaults
            /\ faults' = faults + 1
            /\ UNCHANGED <<orders, broker>>
       ELSE /\ ChangeOrderRaises(resp) # "none" => faults < MaxFaults
            /\ faults' = IF ChangeOrderRaises(resp) # "none" THEN faults + 1 ELSE faults
            /\ broker' = [broker EXCEPT !.modify[e.f] = @ + 1]
            /\ orders' = IF ChangeOrderRaises(resp) = "none"
                         THEN {IF o.id = e.oid
                               THEN [o EXCEPT !.price = stream[cur].price] ELSE o
                               : o \in Committed(orders)}
                         ELSE orders
    /\ UNCHANGED <<now, hooks, stream, maps, audits, redisMap, nextId,
                   wpc, cur, task, counts, rel, users, http, sideVars, auxVars, lateVars>>

\* cancel_follower_order
CancelFollower(e, auth, resp) ==
    /\ wpc = "cancel"
    /\ e \in queue
    /\ queue' = queue \ {e}
    /\ IF GetOrder(orders, e.oid) = {}
       THEN UNCHANGED <<orders, broker, faults>>
       ELSE IF auth # "ok"
       THEN /\ faults < MaxFaults
            /\ faults' = faults + 1
            /\ UNCHANGED <<orders, broker>>
       ELSE /\ ChangeOrderRaises(resp) # "none" => faults < MaxFaults
            /\ faults' = IF ChangeOrderRaises(resp) # "none" THEN faults + 1 ELSE faults
            /\ broker' = [broker EXCEPT !.cancel[e.f] = @ + 1]
            /\ orders' = IF ChangeOrderRaises(resp) = "none"
                         THEN {IF o.id = e.oid
                               THEN [o EXCEPT !.status = "CANCELLED"] ELSE o
                               : o \in Committed(orders)}
                         ELSE orders
    /\ UNCHANGED <<now, hooks, stream, maps, audits, redisMap, nextId,
                   wpc, cur, task, counts, rel, users, http, sideVars, auxVars, lateVars>>

\* The loop is over: db.commit(), return, ack.
ChangeDone ==
    /\ wpc \in {"modify", "cancel"}
    /\ queue = {}
    /\ orders' = Committed(orders)
    /\ Finish(Acked(stream, cur))
    /\ UNCHANGED <<now, hooks, maps, audits, redisMap, broker, nextId, faults, rel, users, http, sideVars, auxVars, lateVars>>

\* process_order_event, lines 154-158: no handler for the event type; log a
\* warning, ack.
HandleUnknown ==
    /\ wpc = "recv"
    /\ ParseOrderEvent(stream[cur])
    /\ HandlerOf(stream[cur].kind) = "none"
    /\ Finish(Acked(stream, cur))
    /\ UNCHANGED <<now, hooks, orders, maps, audits, redisMap, broker, nextId, faults,
                   rel, users, http, sideVars, auxVars, lateVars>>

\* nats_service.py publish_order_event(OrderEvent.FILLED, ...): a fill of the
\* master's order is put on the bus.
PublishFilled(dt) ==
    /\ hooks < MaxWebhooks
    /\ now + dt <= MaxClock
    /\ MasterOrderRow(orders) # {}
    /\ now' = now + dt
    /\ hooks' = hooks + 1
    /\ LET mo == CHOOSE o \in MasterOrderRow(orders) : TRUE
       IN stream' = Publish(stream, "order.filled", mo.id, mo.price, now')
    /\ UNCHANGED <<orders, maps, audits, redisMap, broker, nextId, wpc, cur, task, queue,
                   counts, faults, rel, users, http, sideVars, auxVars, lateVars>>

(***************************************************************************)
(* The system.                                                             *)
(***************************************************************************)
Next ==
    \/ \E w \in Payloads, dt \in 0..1 : Webhook(w, dt, "ok")
    \/ \E i \in 1..Len(stream) : Deliver(i)
    \/ AckWaitExpires
    \/ WorkerCrash
    \/ MappingExpires
    \/ HandleNewStart
    \/ \E f \in Followers, a \in AuthResponses, r \in BrokerResponses : TaskBegin(f, a, r)
    \/ \E f \in Followers : TaskFlush(f)
    \/ \E f \in Followers : TaskMapRead(f)
    \/ \E f \in Followers : TaskMapWrite(f)
    \/ \E f \in Followers : TaskMapWriteFails(f)
    \/ \E f \in Followers : TaskCommit(f)
    \/ \E f \in Followers : TaskStoreFailed(f)
    \/ NewGathered
    \/ NewAuditCommit
    \/ NewAuditCommitFails
    \/ HandleChangeStart
    \/ \E e \in queue, a \in AuthResponses, r \in BrokerResponses : ModifyFollower(e, a, r)
    \/ \E e \in queue, a \in AuthResponses, r \in BrokerResponses : CancelFollower(e, a, r)
    \/ ChangeDone

Spec == Init /\ [][Next]_vars

(***************************************************************************)
(* The system with fills: order_filled webhooks at the ingress and         *)
(* order.filled events on the bus.                                         *)
(***************************************************************************)
FillPayloads == {w \in IngressPayloads : w.kind = "order_filled"}

FillNext ==
    \/ Next
    \/ \E w \in FillPayloads, dt \in 0..1 : Webhook(w, dt, "ok")
    \/ \E dt \in 0..1 : PublishFilled(dt)
    \/ HandleUnknown

FillSpec == Init /\ [][FillNext]_vars

(***************************************************************************)
(* The ingress alone, with every webhook the schema admits here, a bus     *)
(* that may refuse a publish, and the deactivation of the master.          *)
(***************************************************************************)
IngressNext ==
    \/ \E w \in IngressPayloads, dt \in 0..1, pub \in PublishOutcomes : Webhook(w, dt, pub)
    \/ DeleteMaster

IngressSpec == Init /\ [][IngressNext]_vars

(***************************************************************************)
(* The ingress under concurrent requests: receive_blaze_order_webhook      *)
(* awaits between its select of the master Order (lines 163-168) and its   *)
(* commit (lines 186-187, 206), so two requests interleave there.          *)
(***************************************************************************)
\* A variant of the schema without the unique index on broker_order_id.
UniqueBrokerOrderIdUnenforced(os, boid) == TRUE

\* models.py line 138: broker_order_id = Column(String(100), unique=True, index=True)
UniqueBrokerOrderId(os, boid) == \A o \in os : o.boid # boid

\* Lines 172-186: the new master Order.
InsertMaster(os, id, w) ==
    os \cup {[id |-> id, user |-> MasterUser, isMaster |-> TRUE, master |-> 0,
              boid |-> BrokerOrderId, symbol |-> w.symbol, qty |-> w.qty, filled |-> w.filled,
              price |-> w.price, status |-> "PENDING", committed |-> TRUE]}

\* Lines 147-168: find the master, select the master Order.
WebhookSelect(r, w) ==
    /\ req[r].pc = "idle"
    /\ hooks < MaxWebhooks
    /\ hooks' = hooks + 1
    /\ IF MasterByAccount(w.account) = {}
       THEN /\ http' = Append(http, Response("404", "none"))
            /\ req' = req
       ELSE /\ req' = [req EXCEPT ![r] = [pc |-> "selected", w |-> w,
                                          found |-> MasterOrderRow(orders) # {}]]
            /\ http' = http
    /\ UNCHANGED <<now, stream, orders, maps, audits, redisMap, broker, nextId, wpc, cur,
                   task, queue, counts, faults, rel, users, sideVars,
                   normed, calls, calc, gate, lateVars>>

\* Lines 170-304: insert or update as the select decided, commit, publish,
\* respond.  An insert that meets a row with the same broker_order_id fails with
\* IntegrityError at the commit, and the request is answered 500.
WebhookCommit(r, dt, pub) ==
    /\ req[r].pc = "selected"
    /\ now + dt <= MaxClock
    /\ now' = now + dt
    /\ req' = [req EXCEPT ![r] = NoRequest]
    /\ LET w == req[r].w
           inserting == ~req[r].found
       IN
       IF inserting /\ ~UniqueBrokerOrderId(orders, BrokerOrderId)
       THEN /\ http' = Append(http, Response("500", "none"))
            /\ nextId' = nextId + 1
            /\ UNCHANGED <<orders, stream>>
       ELSE /\ orders' = IF inserting THEN InsertMaster(orders, nextId, w)
                         ELSE UpsertMaster(orders, nextId, w)
            /\ nextId' = IF inserting THEN nextId + 1 ELSE nextId
            /\ IF ~Published(w.kind)
               THEN /\ stream' = stream
                    /\ http' = Append(http, Response("200", "none"))
               ELSE IF pub = "ok"
               THEN /\ LET mid == IF inserting THEN nextId
                                  ELSE (CHOOSE o \in MasterOrderRow(orders) : TRUE).id
                       IN stream' = Publish(stream, EventOf(w.kind), mid, w.price, now')
                    /\ http' = Append(http, Response("200", "ok"))
               ELSE /\ stream' = stream
                    /\ http' = Append(http, Response(PublishFailureStatus, "fail"))
    /\ UNCHANGED <<hooks, maps, audits, redisMap, broker, wpc, cur, task, queue, counts,
                   faults, rel, users, sideVars, normed, calls, calc, gate, lateVars>>

ConcurrentIngressNext ==
    \/ \E r \in Requests, w \in IngressPayloads : WebhookSelect(r, w)
    \/ \E r \in Requests, dt \in 0..1, pub \in PublishOutcomes : WebhookCommit(r, dt, pub)

ConcurrentIngressSpec == Init /\ [][ConcurrentIngressNext]_vars

(***************************************************************************)
(* webhooks.py normalize_blaze_webhook, as a function of the raw webhook,  *)
(* the ids and the clock it reads.                                         *)
(***************************************************************************)
\* An Optional[str] field sent as JSON null.
Null == "<None>"

\* One webhook as the schema BlazeOrderWebhook admits it; timestamp 0: the
\* payload carries none.
BaseWebhook ==
    [event_type |-> "order_placed", exchange |-> "NSE", segment |-> "CASH",
     order_type |-> "LIMIT", product |-> "DELIVERY", validity |-> "DAY", timestamp |-> 0]

EventTypes == {"order_placed", "order_modified", "order_cancelled", "order_filled"}
ExchangeValues == {"NSE", "NFO", "BSE", "MCX", "nse", "bse", "CDS"}
SegmentValues == {"CASH", "FO", "FUTURES", "OPTIONS", "fo", "CURRENCY"}
OrderTypeValues == {"MARKET", "MKT", "LIMIT", "LMT", "SL", "STOPLOSS", "SLM", "SL-M",
                    "slm", "ICEBERG"}
ProductValues == {"INTRADAY", "MIS", "BO", "CO", "DELIVERY", "mis", "CNC", Null}
ValidityValues == {"DAY", "IOC", Null}
TimestampValues == {0, 5}

\* The base webhook with one field changed.
RawWebhooks ==
    {[BaseWebhook EXCEPT !.event_type = v] : v \in EventTypes}
    \cup {[BaseWebhook EXCEPT !.exchange = v] : v \in ExchangeValues}
    \cup {[BaseWebhook EXCEPT !.segment = v] : v \in SegmentValues}
    \cup {[BaseWebhook EXCEPT !.order_type = v] : v \in OrderTypeValues}
    \cup {[BaseWebhook EXCEPT !.product = v] : v \in ProductValues}
    \cup {[BaseWebhook EXCEPT !.validity = v] : v \in ValidityValues}
    \cup {[BaseWebhook EXCEPT !.timestamp = v] : v \in TimestampValues}

\* str.upper() on the values above.
Upper(v) ==
    CASE v = "nse" -> "NSE"
      [] v = "bse" -> "BSE"
      [] v = "fo" -> "FO"
      [] v = "slm" -> "SLM"
      [] v = "mis" -> "MIS"
      [] OTHER -> v

\* Lines 39-44 and 83: event_type_map.get(webhook.event_type, "NEW")
EventTypeMap(v) ==
    CASE v = "order_placed" -> "NEW"
      [] v = "order_modified" -> "MODIFY"
      [] v = "order_cancelled" -> "CANCEL"
      [] v = "order_filled" -> "FILL"
      [] OTHER -> "NEW"

\* Lines 47-55
OrderTypeMap(v) ==
    LET u == Upper(v) IN
    CASE u \in {"MARKET", "MKT"} -> "MARKET"
      [] u \in {"LIMIT", "LMT"} -> "LIMIT"
      [] u \in {"SL", "STOPLOSS"} -> "STOP_LOSS"
      [] u \in {"SLM", "SL-M"} -> "STOP_LOSS_MARKET"
      [] OTHER -> u

\* Lines 58-64: exchange_map.get(webhook.exchange.upper(), "N")
ExchangeMap(v) ==
    LET u == Upper(v) IN
    CASE u \in {"NSE", "NFO"} -> "N"
      [] u = "BSE" -> "B"
      [] u = "MCX" -> "M"
      [] OTHER -> "N"

\* Lines 67-73: exchange_type_map.get(webhook.segment.upper(), "C")
ExchangeTypeMap(v) ==
    LET u == Upper(v) IN
    CASE u = "CASH" -> "C"
      [] u \in {"FO", "FUTURES", "OPTIONS"} -> "D"
      [] OTHER -> "C"

\* Line 76: webhook.product.upper() in ["INTRADAY", "MIS", "BO", "CO"]
IsIntraday(v) == Upper(v) \in {"INTRADAY", "MIS", "BO", "CO"}

\* Lines 26-103.  product and validity are Optional[str]: when one is None its
\* .upper() raises AttributeError.  Line 101: webhook.timestamp or datetime.utcnow().
NormalizeBlazeWebhook(w, mid, uid, clock) ==
    IF w.product = Null \/ w.validity = Null
    THEN [raised |-> "AttributeError"]
    ELSE [raised |-> "none",
          master_order_id |-> mid,
          master_user_id |-> uid,
          event_type |-> EventTypeMap(w.event_type),
          exchange |-> ExchangeMap(w.exchange),
          exchange_type |-> ExchangeTypeMap(w.segment),
          order_type |-> OrderTypeMap(w.order_type),
          product |-> Upper(w.product),
          validity |-> Upper(w.validity),
          is_intraday |-> IsIntraday(w.product),
          timestamp |-> IF w.timestamp # 0 THEN w.timestamp ELSE clock]

\* One call, dt after the previous one, for the master order 1 of the master.
Normalize(w, dt) ==
    /\ Len(normed) < MaxNormalized
    /\ now + dt <= MaxClock
    /\ now' = now + dt
    /\ normed' = Append(normed, [raw |-> w,
                                 out |-> NormalizeBlazeWebhook(w, 1, MasterUser, now')])
    /\ UNCHANGED <<hooks, stream, orders, maps, audits, redisMap, broker, nextId, wpc,
                   cur, task, queue, counts, faults, rel, users, http, sideVars,
                   req, calls, calc, gate, lateVars>>

NormalizeNext == \E w \in RawWebhooks, dt \in 0..1 : Normalize(w, dt)

NormalizeSpec == Init /\ [][NormalizeNext]_vars

(***************************************************************************)
(* The order-map store used by one caller at a time: redis_service.py       *)
(* set_order_mapping, delete_order_mapping, get_order_mapping and          *)
(* get_follower_order_id.  A mapping that get_order_mapping returns as     *)
(* None is the empty set here; 0 stands for the None of                    *)
(* get_follower_order_id.                                                  *)
(***************************************************************************)
StoreMasters == {1, 2}
StoreOrderIds == {11, 12}

\* get_follower_order_id: mapping[str(follower_user_id)].get("follower_order_id")
GetFollowerOrderId(r, mid, f) ==
    LET es == {e \in GetOrderMapping(r, mid) : e.f = f} IN
    IF es = {} THEN 0 ELSE (CHOOSE e \in es : TRUE).oid

\* set_order_mapping, run to its end: read the key, set the follower's entry,
\* write the key.
SetOrderMapping(mid, f, oid) ==
    /\ Len(calls) < MaxCalls
    /\ redisMap' = SetJson(redisMap, mid,
                           MergedMapping(GetOrderMapping(redisMap, mid), mid, f, oid))
    /\ calls' = Append(calls, [op |-> "set", m |-> mid, f |-> f, oid |-> oid])
    /\ UNCHANGED <<now, hooks, stream, orders, maps, audits, broker, nextId, wpc, cur,
                   task, queue, counts, faults, rel, users, http, sideVars,
                   req, normed, calc, gate, lateVars>>

\* delete_order_mapping: delete the key.
DeleteOrderMapping(mid) ==
    /\ Len(calls) < MaxCalls
    /\ redisMap' = {e \in redisMap : e.m # mid}
    /\ calls' = Append(calls, [op |-> "delete", m |-> mid, f |-> "-", oid |-> 0])
    /\ UNCHANGED <<now, hooks, stream, orders, maps, audits, broker, nextId, wpc, cur,
                   task, queue, counts, faults, rel, users, http, sideVars,
                   req, normed, calc, gate, lateVars>>

StoreNext ==
    \/ \E mid \in StoreMasters, f \in Followers, oid \in StoreOrderIds :
           SetOrderMapping(mid, f, oid)
    \/ \E mid \in StoreMasters : DeleteOrderMapping(mid)

StoreSpec == Init /\ [][StoreNext]_vars

(***************************************************************************)
(* The broker calls of one fan-out, counted.  handle_new_order creates one *)
(* execute_follower_order task per relationship and gathers them (lines    *)
(* 220-232); each task calls place_order, which posts through the client's *)
(* connection pool (normal_client.py lines 59-66).  Neither takes a        *)
(* semaphore nor asks RedisService.check_rate_limit.                       *)
(***************************************************************************)
\* A task reaches iifl_client.place_order(...).
CallBegin ==
    /\ gate.waiting + gate.wire < FanOutFollowers
    /\ gate' = [gate EXCEPT !.waiting = @ + 1]
    /\ UNCHANGED <<coreVars, sideVars, req, normed, calls, calc, lateVars>>

\* self.client.post(...): a pool connection is free, the request leaves.
SendRequest ==
    /\ gate.waiting > 0
    /\ gate.wire < HttpPoolConnections
    /\ gate.window < MaxWindow
    /\ gate' = [gate EXCEPT !.waiting = @ - 1, !.wire = @ + 1, !.window = @ + 1]
    /\ UNCHANGED <<coreVars, sideVars, req, normed, calls, calc, lateVars>>

\* The broker answers; the task goes on to its database work.
ReceiveResponse ==
    /\ gate.wire > 0
    /\ gate' = [gate EXCEPT !.wire = @ - 1]
    /\ UNCHANGED <<coreVars, sideVars, req, normed, calls, calc, lateVars>>

\* The next one-second window begins.
SecondPasses ==
    /\ gate.window > 0
    /\ gate' = [gate EXCEPT !.window = 0]
    /\ UNCHANGED <<coreVars, sideVars, req, normed, calls, calc, lateVars>>

GateNext == CallBegin \/ SendRequest \/ ReceiveResponse \/ SecondPasses

GateSpec == Init /\ [][GateNext]_vars

(***************************************************************************)
(* The follower quantity of execute_follower_order (order_worker.py lines  *)
(* 289-297), as a function of the master order, the relationship and the   *)
(* follower.  ratio and percentage are DECIMAL(5,2), price DECIMAL(10,2),   *)
(* all three held in hundredths.                                           *)
(***************************************************************************)
CopyStrategies == {"FIXED_RATIO", "PERCENTAGE", "FIXED_QUANTITY"}
MasterQuantities == {1, 10, 15}
Ratios == {1, 50, 100, 150}
Percentages == {1000, 5000}
FixedQuantities == {1, 5}
Balances == {10000}
Prices == {0, 10000}

\* The quantity is computed from master_order.quantity and
\* follower_relationship.ratio; copy_strategy, percentage, fixed_quantity, the
\* follower's balance and the price are not read.
ComputeQuantity(st, qty, ratio, pct, fixed, balance, price) ==
    /\ calc' = [strategy |-> st, qty |-> qty, ratio |-> ratio, percentage |-> pct,
                fixed_quantity |-> fixed, balance |-> balance, price |-> price,
                out |-> FollowerQuantity(qty, ratio)]
    /\ calc' # calc
    /\ UNCHANGED <<coreVars, sideVars, req, normed, calls, gate, lateVars>>

QuantityNext ==
    \E st \in CopyStrategies, qty \in MasterQuantities, ratio \in Ratios,
       pct \in Percentages, fixed \in FixedQuantities, balance \in Balances,
       price \in Prices :
        ComputeQuantity(st, qty, ratio, pct, fixed, balance, price)

QuantitySpec == Init /\ [][QuantityNext]_vars

(***************************************************************************)
(* The worker's reply to every kind of message on the subject: events of   *)
(* orders that are in no table, and data that is not JSON.                 *)
(***************************************************************************)
\* A master_order_id no Order row has.
MissingMasterId == 99

\* nats_service.py publish_new_order(master_order_id, order_data) for an id with
\* no Order row.
PublishNewForMissing(dt) ==
    /\ hooks < MaxWebhooks
    /\ now + dt <= MaxClock
    /\ now' = now + dt
    /\ hooks' = hooks + 1
    /\ stream' = Publish(stream, "order.new", MissingMasterId, 100, now')
    /\ UNCHANGED <<orders, maps, audits, redisMap, broker, nextId, wpc, cur, task, queue,
                   counts, faults, rel, users, http, sideVars, auxVars, lateVars>>

\* The consumer is bound to {prefix}.>: whatever a client of the bus publishes
\* there is delivered to the worker.
PublishRaw(dt) ==
    /\ hooks < MaxWebhooks
    /\ now + dt <= MaxClock
    /\ now' = now + dt
    /\ hooks' = hooks + 1
    /\ stream' = Publish(stream, NotJson, 0, 0, now')
    /\ UNCHANGED <<orders, maps, audits, redisMap, broker, nextId, wpc, cur, task, queue,
                   counts, faults, rel, users, http, sideVars, auxVars, lateVars>>

\* A variant that acks what it cannot parse.
ParseFailsAcking ==
    /\ wpc = "recv"
    /\ ~ParseOrderEvent(stream[cur])
    /\ Finish(Acked(stream, cur))
    /\ UNCHANGED <<now, hooks, orders, maps, audits, redisMap, broker, nextId, faults,
                   rel, users, http, sideVars, auxVars, lateVars>>

\* process_order_event, lines 126-131: parse_order_event returned None;
\* msg.nak(), return.
ParseFails ==
    /\ wpc = "recv"
    /\ ~ParseOrderEvent(stream[cur])
    /\ Finish(Naked(stream, cur))
    /\ UNCHANGED <<now, hooks, orders, maps, audits, redisMap, broker, nextId, faults,
                   rel, users, http, sideVars, auxVars, lateVars>>

AnswerNext ==
    \/ FillNext
    \/ \E dt \in 0..1 : PublishNewForMissing(dt)
    \/ \E dt \in 0..1 : PublishRaw(dt)
    \/ ParseFails

AnswerSpec == Init /\ [][AnswerNext]_vars

(***************************************************************************)
(* core/retry.py CircuitBreaker.  call() awaits func, so a second call can  *)
(* enter while the first is waiting.                                       *)
(***************************************************************************)
\* How a call of func ends: it returns, raises an instance of
\* expected_exception, or raises something else.
BreakerOutcomes == {"ok", "expected", "other"}

\* time.time() moves on.
BreakerTick ==
    /\ breaker.clock + (BreakerTimeout \div 2) <= MaxBreakerClock
    /\ breaker' = [breaker EXCEPT !.clock = @ + (BreakerTimeout \div 2)]
    /\ UNCHANGED <<coreVars, sideVars, auxVars, shut, svc>>

\* time.time() - self.last_failure_time >= self.timeout
CoolDownOver(b) == b.clock - b.last_failure_time >= BreakerTimeout

\* Lines 215-229: the check of the state, up to "await func(...)".
BreakerCall(c) ==
    /\ breaker.pc[c] = "idle"
    /\ breaker.invoked + breaker.rejected < MaxBreakerCalls
    /\ IF breaker.state = "open" /\ ~CoolDownOver(breaker)
       THEN breaker' = [breaker EXCEPT !.rejected = @ + 1, !.out[c] = "open"]
       ELSE breaker' = [breaker EXCEPT
                          !.state = IF @ = "open" THEN "half_open" ELSE @,
                          !.pc[c] = "running",
                          !.trial[c] = breaker.state \in {"open", "half_open"},
                          !.out[c] = "none",
                          !.invoked = @ + 1]
    /\ UNCHANGED <<coreVars, sideVars, auxVars, shut, svc>>

\* A variant that clears failure_count whenever func returns.
AfterCallResetting(b, outcome) ==
    CASE outcome = "ok" ->
           [b EXCEPT !.state = IF @ = "half_open" THEN "closed" ELSE @,
                     !.failure_count = 0]
      [] outcome = "expected" ->
           [b EXCEPT !.failure_count = @ + 1,
                     !.last_failure_time = b.clock,
                     !.state = IF b.failure_count + 1 >= FailureThreshold
                               THEN "open" ELSE @]
      [] OTHER -> b

\* Lines 231-264: what call() does to the breaker once func has ended.
AfterCall(b, outcome) ==
    CASE outcome = "ok" ->
           IF b.state = "half_open"
           THEN [b EXCEPT !.state = "closed", !.failure_count = 0]
           ELSE b
      [] outcome = "expected" ->
           [b EXCEPT !.failure_count = @ + 1,
                     !.last_failure_time = b.clock,
                     !.state = IF b.failure_count + 1 >= FailureThreshold
                               THEN "open" ELSE @]
      [] OTHER -> b

BreakerReturn(c, outcome) ==
    /\ breaker.pc[c] = "running"
    /\ breaker' = [AfterCall(breaker, outcome) EXCEPT
                     !.pc[c] = "idle",
                     !.out[c] = outcome,
                     !.streak = CASE outcome = "ok" -> 0
                                   [] outcome = "expected" -> @ + 1
                                   [] OTHER -> @]
    /\ UNCHANGED <<coreVars, sideVars, auxVars, shut, svc>>

BreakerNext ==
    \/ BreakerTick
    \/ \E c \in BreakerCallers : BreakerCall(c)
    \/ \E c \in BreakerCallers, o \in BreakerOutcomes : BreakerReturn(c, o)

BreakerSpec == Init /\ [][BreakerNext]_vars

(***************************************************************************)
(* order_worker.py main / OrderWorker.stop: the worker is told to stop while *)
(* the subscription's callbacks go on.                                     *)
(***************************************************************************)
PlacedPayloads == {w \in Payloads : w.kind = "order_placed"}

\* stop(), lines 106-112, up to the first suspension: self.running = False;
\* await self.iifl_client.close(), which marks the httpx client closed.
StopBegin ==
    /\ shut.pc = "running"
    /\ shut' = [shut EXCEPT !.pc = "stopping", !.closed = TRUE]
    /\ UNCHANGED <<coreVars, sideVars, auxVars, breaker, svc>>

\* stop() returns, main() returns and the event loop is torn down.
StopReturn ==
    /\ shut.pc = "stopping"
    /\ shut' = [shut EXCEPT !.pc = "exited"]
    /\ UNCHANGED <<coreVars, sideVars, auxVars, breaker, svc>>

\* execute_follower_order on a closed client: self.client.post raises,
\* place_order's "except Exception" turns it into IIFLOrderError, and the task
\* goes on to store a FAILED map.  No request reaches the broker.
TaskBeginClosed(f) ==
    /\ wpc = "fanout"
    /\ task[f].pc = "init"
    /\ shut.closed
    /\ users[f].active
    /\ LET mo == CHOOSE o \in GetOrder(orders, CurMid) : TRUE
       IN ~SkipsQuantity(FollowerQuantity(mo.qty, rel[f].ratio))
    /\ task' = [task EXCEPT ![f] = [@ EXCEPT !.pc = "failmap"]]
    /\ shut' = [shut EXCEPT !.used = @ + 1]
    /\ UNCHANGED <<now, hooks, stream, orders, maps, audits, redisMap, broker, nextId,
                   wpc, cur, queue, counts, faults, rel, users, http,
                   sideVars, auxVars, breaker, svc>>

\* What the worker's process does for a NEW event.
WorkerStep ==
    \/ \E i \in 1..Len(stream) : Deliver(i)
    \/ HandleNewStart
    \/ \E f \in Followers, a \in AuthResponses, r \in BrokerResponses : TaskBegin(f, a, r)
    \/ \E f \in Followers : TaskBeginClosed(f)
    \/ \E f \in Followers : TaskFlush(f)
    \/ \E f \in Followers : TaskMapRead(f)
    \/ \E f \in Followers : TaskMapWrite(f)
    \/ \E f \in Followers : TaskCommit(f)
    \/ \E f \in Followers : TaskStoreFailed(f)
    \/ NewGathered
    \/ NewAuditCommit

ShutdownNext ==
    \/ \E w \in PlacedPayloads, dt \in 0..1 : Webhook(w, dt, "ok")
    \/ shut.pc # "exited" /\ WorkerStep
    \/ StopBegin
    \/ StopReturn

ShutdownSpec == Init /\ [][ShutdownNext]_vars

(***************************************************************************)
(* nats_service.py get_nats_service and redis_service.py get_redis_service: *)
(* the same code over the globals _nats_service and _redis_service.        *)
(***************************************************************************)
\* "return _nats_service": the instance as the caller gets it.
HandedOver(v) == IF v.connected THEN "connected" ELSE "unconnected"

\* The getter up to its first suspension: "if _x_service is None:
\* _x_service = XService(); await _x_service.connect()", or "return _x_service".
GetService(s, c) ==
    /\ svc[s].pc[c] = "idle"
    /\ IF svc[s].global = "None"
       THEN svc' = [svc EXCEPT ![s].global = "instance",
                               ![s].pc[c] = "connecting",
                               ![s].got[c] = "nothing"]
       ELSE svc' = [svc EXCEPT ![s].got[c] = HandedOver(svc[s])]
    /\ UNCHANGED <<coreVars, sideVars, auxVars, breaker, shut>>

\* connect() returned: the getter returns the instance.
ConnectReturns(s, c) ==
    /\ svc[s].pc[c] = "connecting"
    /\ svc' = [svc EXCEPT ![s].connected = TRUE,
                          ![s].pc[c] = "idle",
                          ![s].got[c] = "connected"]
    /\ UNCHANGED <<coreVars, sideVars, auxVars, breaker, shut>>

\* connect() raised NATSConnectionError / RedisConnectionError: the getter
\* raises; the global keeps the instance.
ConnectRaises(s, c) ==
    /\ svc[s].pc[c] = "connecting"
    /\ svc' = [svc EXCEPT ![s].pc[c] = "idle", ![s].got[c] = "raised"]
    /\ UNCHANGED <<coreVars, sideVars, auxVars, breaker, shut>>

ServiceNext ==
    \/ \E s \in Services, c \in Getters : GetService(s, c)
    \/ \E s \in Services, c \in Getters : ConnectReturns(s, c)
    \/ \E s \in Services, c \in Getters : ConnectRaises(s, c)

ServiceSpec == Init /\ [][ServiceNext]_vars

(***************************************************************************)
(* The broker client alone: services/iifl/normal_client.py under the       *)
(* decorator retry_iifl_api of core/retry.py.                              *)
(***************************************************************************)
ClientOps == {"vendor_login", "client_login", "place_order", "modify_order", "cancel_order"}
LoginOps == {"vendor_login", "client_login"}

\* What the broker answers to one request: 200 with Success, 200 with Success
\* false ("rejected"), an HTTP error status, or no answer (connection error, timeout).
HttpResponses == {"ok", "rejected", "http401", "http429", "http5xx", "network"}

\* The exception one attempt ends with. In the logins the IIFLAuthenticationError
\* raised for a refusal in the body is caught by the method's own
\* "except Exception" and leaves as IIFLConnectionError.
AttemptRaises(op, resp) ==
    IF resp = "ok" THEN "none"
    ELSE IF op \in LoginOps
    THEN IF resp \in {"http401", "http429", "http5xx"}
         THEN "IIFLAuthenticationError" ELSE "IIFLConnectionError"
    ELSE IF op = "place_order"
    THEN IF resp = "http429" THEN "IIFLRateLimitError" ELSE "IIFLOrderError"
    ELSE "IIFLOrderError"

\* retry.py retry_iifl_api: exceptions=(IIFLRateLimitError, IIFLConnectionError,
\* asyncio.TimeoutError)
Retried(exc) == exc \in {"IIFLRateLimitError", "IIFLConnectionError", "TimeoutError"}

\* The max_retries argument of each method's decorator.
MaxRetries(op) == IF op \in LoginOps THEN 3 ELSE 2

\* The base_delay argument of each method's decorator, in milliseconds.
BaseDelay(op) == IF op \in LoginOps THEN 1000 ELSE 500

\* retry.py retry_iifl_api: max_delay=30.0, in milliseconds.
MaxDelay == 30000

\* A variant of the delay without the cap.
BackoffDelayUncapped(base, attempt, cap) == base * (2 ^ attempt)

\* retry.py exponential_backoff_retry:
\* delay = min(base_delay * (exponential_base ** attempt), max_delay)
BackoffDelay(base, attempt, cap) ==
    IF base * (2 ^ attempt) < cap THEN base * (2 ^ attempt) ELSE cap

ClientCall(op) ==
    /\ client.pc # "running"
    /\ client' = [op |-> op, pc |-> "running", sent |-> 0, hist |-> <<>>, out |-> "none",
                  slept |-> <<>>]
    /\ UNCHANGED <<coreVars, auxVars, tokenCache, session, issued, caller, lateVars>>

\* One pass of the loop of exponential_backoff_retry: send the request; return,
\* sleep and go round again, or raise.
ClientAttempt(resp) ==
    /\ client.pc = "running"
    /\ LET exc == AttemptRaises(client.op, resp) IN
       client' = [client EXCEPT
                    !.sent = @ + 1,
                    !.hist = Append(@, resp),
                    !.out = exc,
                    !.slept = IF Retried(exc) /\ client.sent < MaxRetries(client.op)
                              THEN Append(@, BackoffDelay(BaseDelay(client.op), client.sent,
                                                          MaxDelay))
                              ELSE @,
                    !.pc = IF exc = "none" THEN "returned"
                           ELSE IF Retried(exc) /\ client.sent < MaxRetries(client.op)
                           THEN "running" ELSE "raised"]
    /\ UNCHANGED <<coreVars, auxVars, tokenCache, session, issued, caller, lateVars>>

ClientNext ==
    \/ \E op \in ClientOps : ClientCall(op)
    \/ \E resp \in HttpResponses : ClientAttempt(resp)

ClientSpec == Init /\ [][ClientNext]_vars

(***************************************************************************)
(* The token cache: OrderWorker.get_iifl_token, the tasks that use the     *)
(* token at the broker, and the broker's sessions.  tokenCache[u] is the   *)
(* token cached under iifl:token:u (0: no key), session[u] the tokens the   *)
(* broker accepts for u, issued[u] the number of logins it has granted.    *)
(***************************************************************************)
\* get_iifl_token, first await: read the cache; a hit returns the token, a miss
\* goes on to authenticate.
GetTokenRead(c, u) ==
    /\ caller[c].pc = "idle"
    /\ caller' = [caller EXCEPT ![c] =
                    IF tokenCache[u] # 0
                    THEN [pc |-> "have", user |-> u, token |-> tokenCache[u], out |-> "none"]
                    ELSE [pc |-> "auth", user |-> u, token |-> 0, out |-> "none"]]
    /\ UNCHANGED <<coreVars, auxVars, client, tokenCache, session, issued, lateVars>>

\* get_iifl_token, second await: authenticate_user (vendor login, client login)
\* returns a new session token, or raises.
Authenticate(c, granted) ==
    /\ caller[c].pc = "auth"
    /\ LET u == caller[c].user IN
       IF granted
       THEN /\ issued[u] < MaxTokens
            /\ issued' = [issued EXCEPT ![u] = @ + 1]
            /\ session' = [session EXCEPT ![u] = @ \cup {issued[u] + 1}]
            /\ caller' = [caller EXCEPT ![c].pc = "caching", ![c].token = issued[u] + 1]
       ELSE /\ caller' = [caller EXCEPT ![c].pc = "idle",
                                         ![c].out = "IIFLAuthenticationError"]
            /\ UNCHANGED <<issued, session>>
    /\ UNCHANGED <<coreVars, auxVars, client, tokenCache, lateVars>>

\* get_iifl_token, third await: cache_iifl_token(expire_seconds=3000), then return.
CacheToken(c) ==
    /\ caller[c].pc = "caching"
    /\ tokenCache' = [tokenCache EXCEPT ![caller[c].user] = caller[c].token]
    /\ caller' = [caller EXCEPT ![c].pc = "have"]
    /\ UNCHANGED <<coreVars, auxVars, client, session, issued, lateVars>>

\* The task sends its broker call with the token.  A token the broker no longer
\* accepts is answered with HTTP 401, which place_order raises as IIFLOrderError;
\* the handler of the task records the failure and leaves the cache alone.
UseToken(c) ==
    /\ caller[c].pc = "have"
    /\ caller' = [caller EXCEPT ![c].pc = "idle",
                                ![c].out = IF caller[c].token \in session[caller[c].user]
                                           THEN "ok" ELSE "IIFLOrderError"]
    /\ UNCHANGED <<coreVars, auxVars, client, tokenCache, session, issued, lateVars>>

\* The broker ends a session (expiry, logout elsewhere).
SessionEnds(u) ==
    /\ \E t \in session[u] : session' = [session EXCEPT ![u] = @ \ {t}]
    /\ UNCHANGED <<coreVars, auxVars, client, tokenCache, issued, caller, lateVars>>

\* The key iifl:token:u reaches its time to live.
TokenExpires(u) ==
    /\ tokenCache[u] # 0
    /\ tokenCache' = [tokenCache EXCEPT ![u] = 0]
    /\ UNCHANGED <<coreVars, auxVars, client, session, issued, caller, lateVars>>

TokenNext ==
    \/ \E c \in Callers, u \in TokenUsers : GetTokenRead(c, u)
    \/ \E c \in Callers, granted \in BOOLEAN : Authenticate(c, granted)
    \/ \E c \in Callers : CacheToken(c)
    \/ \E c \in Callers : UseToken(c)
    \/ \E u \in TokenUsers : SessionEnds(u)
    \/ \E u \in TokenUsers : TokenExpires(u)

TokenSpec == Init /\ [][TokenNext]_vars

(***************************************************************************)
(* Properties.                                                             *)
(***************************************************************************)
NewMessages(mid) ==
    {i \in 1..Len(stream) : stream[i].kind = "order.new" /\ stream[i].mid = mid}

FollowerOrders(os, mid, f) ==
    {o \in os : ~o.isMaster /\ o.master = mid /\ o.user = f}

SuccessMaps(mid, f) ==
    {r \in maps : r.m = mid /\ r.f = f /\ r.status = "SUCCESS"}

FailedMaps(mid, f) ==
    {r \in maps : r.m = mid /\ r.f = f /\ r.status = "FAILED"}

\* C1: whatever deliveries and redeliveries the one NEW message of a master
\* order goes through (nak after an exception, ack-wait expiry, a crash before
\* the ack), every follower ends with at most one SUCCESS OrderMap row, at most
\* one follower Order row and at most one accepted place_order call.
C1_AtMostOncePerFollower ==
    \A mo \in MasterOrderRow(orders), f \in Followers :
        Cardinality(NewMessages(mo.id)) = 1 =>
            /\ Cardinality(SuccessMaps(mo.id, f)) <= 1
            /\ Cardinality(FollowerOrders(RolledBack(orders), mo.id, f)) <= 1
            /\ broker.placed[f] <= 1

\* C2: the same master event published twice within the duplicate window is
\* stored once by the bus (so the worker is invoked once for it).
C2_DuplicatePublishAbsorbed ==
    \A i, j \in 1..Len(stream) :
        (/\ i < j
         /\ stream[i].kind = stream[j].kind
         /\ stream[i].mid = stream[j].mid
         /\ stream[i].price = stream[j].price)
        => stream[j].at - stream[i].at >= DuplicateWindow

HandlingChange ==
    cur # 0 /\ stream[cur].kind \in {"order.modified", "order.cancelled"}

FollowerOrderIds(os) == {o.id : o \in {x \in os : ~x.isMaster}}

\* C3: while the worker handles a MODIFY or a CANCEL, no follower Order row is
\* created and no place_order call reaches the broker, whether or not a mapping
\* exists.
C3_ChangeNeverPlaces ==
    [][HandlingChange =>
          /\ FollowerOrderIds(orders') \subseteq FollowerOrderIds(orders)
          /\ broker'.calls = broker.calls]_vars

\* A MODIFY or CANCEL handler has called the broker for a mapped follower order.
C3_ChangeHandled ==
    /\ HandlingChange
    /\ \E f \in Followers : broker.modify[f] + broker.cancel[f] > 0

\* C4: a MODIFY or CANCEL whose master order has no mapping is a no-op: the
\* handler returns without a broker call and without touching any row, and the
\* message is answered with an ack.
C4_EmptyMappingAckedNoOp ==
    [][(/\ wpc = "recv"
        /\ HandlingChange
        /\ GetOrderMapping(redisMap, CurMid) = {}
        /\ wpc' # "recv"
        /\ ~WorkerCrash)
       => /\ stream'[cur].reply = "ack"
          /\ orders' = orders
          /\ maps' = maps
          /\ broker' = broker]_vars

\* A MODIFY or CANCEL that found no mapping has been acknowledged.
C4_EmptyMappingAcked ==
    \E i \in 1..Len(stream) :
        /\ stream[i].kind \in {"order.modified", "order.cancelled"}
        /\ stream[i].st = "acked"
        /\ stream[i].reply = "ack"
        /\ GetOrderMapping(redisMap, stream[i].mid) = {}

PastMapping(f) ==
    task[f].pc = "mapped" \/ (task[f].pc = "done" /\ task[f].out \in {"ok", "IntegrityError"})

\* C5: concurrent set_order_mapping calls of one fan-out lose no entry: once
\* the calls of two followers have returned, the mapping holds both entries
\* (nothing having failed and no key having left the cache).
C5_NoMappingEntryLost ==
    (wpc = "fanout" /\ faults = 0) =>
        \A f \in FanOut :
            PastMapping(f) =>
                \E e \in GetOrderMapping(redisMap, CurMid) : e.f = f

\* C6: when the fan-out of a NEW event is over, the master order has one
\* OrderMap row per active auto-follow relationship.
C6_OneMapRowPerRelationship ==
    wpc = "audit" =>
        Cardinality({r \in maps : r.m = CurMid}) = Cardinality(ActiveAutoFollow(rel))

\* Nothing of the follower's own failed: the broker accepted its order and its
\* cache entry was written.
OwnStepsSucceeded(f) == task[f].pc = "done" /\ task[f].out \in {"ok", "IntegrityError"}

\* C7: a failure of one follower stays with that follower: every sibling whose
\* own steps succeeded ends the fan-out with its Order and its SUCCESS map.
C7_SiblingsKeepTheirOutcome ==
    wpc = "audit" =>
        \A f \in FanOut :
            OwnStepsSucceeded(f) =>
                /\ FollowerOrders(orders, CurMid, f) # {}
                /\ SuccessMaps(CurMid, f) # {}

PlacementFailed(f) ==
    task[f].pc = "done" /\
    task[f].out \in {"IIFLOrderError", "IIFLRateLimitError", "IIFLAuthenticationError"}

\* C8: every follower whose place_order attempt failed (rejection, rate limit
\* after the retries, authentication failure) has exactly one FAILED OrderMap
\* row and no follower Order when the fan-out is over.
C8_FailedRowRecorded ==
    wpc = "audit" =>
        \A f \in FanOut :
            PlacementFailed(f) =>
                /\ Cardinality(FailedMaps(CurMid, f)) = 1
                /\ FollowerOrders(orders, CurMid, f) = {}

\* C9: a follower whose scaled quantity is not positive is skipped: no
\* place_order call, no Order row, no SUCCESS OrderMap row.
C9_NonPositiveQuantitySkipped ==
    \A mo \in MasterOrderRow(orders), f \in Followers :
        FollowerQuantity(mo.qty, rel[f].ratio) <= 0 =>
            /\ broker.calls[f] = 0
            /\ FollowerOrders(orders, mo.id, f) = {}
            /\ SuccessMaps(mo.id, f) = {}

\* A fan-out has finished in which follower F2's quantity came out as zero.
C9_ZeroQuantityFollowerSeen ==
    /\ wpc = "audit"
    /\ "F2" \in FanOut
    /\ users["F2"].active
    /\ \E mo \in MasterOrderRow(orders) : FollowerQuantity(mo.qty, rel["F2"].ratio) = 0

Skipped(f) == task[f].pc = "done" /\ task[f].out \in {"skip_inactive", "skip_quantity"}

\* C10: the REPLICATION_COMPLETED audit's success is the number of followers
\* whose order was placed and its failed the number whose attempt failed; a
\* skipped follower is not counted as failed.
C10_AuditCountsOutcomes ==
    wpc = "audit" =>
        /\ CompletedAudit.success = Cardinality({f \in FanOut : task[f].out = "ok"})
        /\ CompletedAudit.failed =
               Cardinality({f \in FanOut : task[f].out # "ok" /\ ~Skipped(f)})

\* C11: every follower Order (is_master_order = false) carries a non-null
\* master_order_id that is the id of an existing master Order row.
C11_FollowerHasMaster ==
    \A o \in orders :
        ~o.isMaster =>
            /\ o.master # 0
            /\ \E m \in orders : m.id = o.master /\ m.isMaster

\* A follower Order has been committed.
C11_FollowerOrderStored ==
    \E o \in orders : ~o.isMaster /\ o.committed

\* C12: filled_quantity <= quantity on every Order row, after any sequence of
\* webhooks.
C12_FilledWithinQuantity ==
    \A o \in orders : o.filled <= o.qty

\* C19: a webhook that arrives when the master of its account is not active
\* is answered 404, and creates or updates no Order row and publishes nothing.
C19_InactiveMasterRefused ==
    [][(Len(http') = Len(http) + 1 /\ ~users[MasterUser].active) =>
          /\ http'[Len(http')].code = "404"
          /\ orders' = orders
          /\ stream' = stream]_vars

MasterRowsOfOrder == {o \in orders : o.isMaster /\ o.boid = BrokerOrderId}

\* C20: a publish that fails after the upsert is answered with a 5xx status,
\* the master Order row stays, and later webhooks for the order (the upstream
\* broker's retries) update that row: there is never a second one.
C20_PublishFailureKeepsOneRow ==
    \A i \in 1..Len(http) :
        http[i].publish = "fail" =>
            /\ http[i].code = "500"
            /\ Cardinality(MasterRowsOfOrder) = 1

\* A publish failed and the retry of the webhook went through.
C20_RetriedAfterFailure ==
    /\ Len(http) = 2
    /\ http[1].publish = "fail"
    /\ http[2] = Response("200", "ok")
    /\ Len(stream) = 1

\* C13: when the worker begins to handle a MODIFY or CANCEL of a master order,
\* its handling of the NEW event published before it is over: the NEW is not
\* waiting for a redelivery.
C13_NewDoneBeforeChange ==
    HandlingChange =>
        \A i \in 1..(cur - 1) :
            (stream[i].kind = "order.new" /\ stream[i].mid = stream[cur].mid)
            => stream[i].st \in {"acked", "dropped"}

\* C14: a MODIFY or CANCEL that finds no cache mapping for its master order
\* while durable SUCCESS OrderMap rows exist for it does not end as an
\* acknowledged no-op: the lookup falls back to the store and the mapped
\* follower orders are reached.
C14_FallsBackToStore ==
    [][(/\ wpc = "recv"
        /\ HandlingChange
        /\ GetOrderMapping(redisMap, CurMid) = {}
        /\ \E f \in Followers : SuccessMaps(CurMid, f) # {}
        /\ wpc' # "recv"
        /\ ~WorkerCrash)
       => ~(stream'[cur].reply = "ack" /\ broker' = broker)]_vars

\* C17: a place_order, modify_order or cancel_order attempt that fails with a
\* rate-limit response or a transient failure (5xx, network error, timeout) is
\* followed by another attempt, until the attempts are used up.
C17_TransientIsRetried ==
    (client.op \in {"place_order", "modify_order", "cancel_order"}
     /\ client.pc = "raised") =>
        \A i \in 1..Len(client.hist) :
            client.hist[i] \in {"http429", "http5xx", "network"} =>
                (i < Len(client.hist) \/ Len(client.hist) = MaxRetries(client.op) + 1)

\* C18: no request follows a business rejection, or a refusal of the vendor or
\* client login, within one call: the request is sent exactly once.
C18_RejectionNotRetried ==
    \A i \in 1..Len(client.hist) :
        (\/ client.hist[i] = "rejected"
         \/ client.op \in LoginOps /\ client.hist[i] = "http401")
        => i = Len(client.hist) /\ client.pc # "running"

\* C15: at any instant at most one authentication is in flight for a user; a
\* second caller that missed the cache waits for the first one's token.
C15_SingleFlight ==
    \A u \in Followers :
        Cardinality({c \in Callers : caller[c].pc = "auth" /\ caller[c].user = u}) <= 1

\* C16: when a broker call made with a token fails because the broker refuses the
\* token, that token is no longer the cached token of the user afterwards.
C16_AuthFailureInvalidates ==
    [][\A c \in Callers :
          (caller[c].pc = "have" /\ caller'[c].pc = "idle"
           /\ caller'[c].out = "IIFLOrderError")
          => tokenCache'[caller[c].user] # caller[c].token]_vars

\* C21: whatever webhooks arrive, two of them for the same order handled
\* concurrently included, the master's broker order has at most one Order row.
C21_OneMasterRowPerOrder == Cardinality(MasterRowsOfOrder) <= 1

\* Two requests both selected no row; the second insert was refused.
C21_ConcurrentInsertRefused ==
    /\ \E i \in 1..Len(http) : http[i] = Response("500", "none")
    /\ Cardinality(MasterRowsOfOrder) = 1

\* C23: normalising the same raw webhook twice, for the same master order and
\* master, gives equal events in every field.
C23_NormalizationDeterministic ==
    \A i, j \in 1..Len(normed) :
        normed[i].raw = normed[j].raw => normed[i].out = normed[j].out

\* C24: every webhook is normalised to the tabulated values: event kind,
\* exchange, segment and order type as listed, is_intraday exactly for the
\* products INTRADAY, MIS, BO and CO.
C24_TabulatedValues ==
    \A i \in 1..Len(normed) :
        LET w == normed[i].raw
            e == normed[i].out
            u(v) == Upper(v)
        IN
        /\ e.raised = "none"
        /\ e.event_type = (CASE w.event_type = "order_placed" -> "NEW"
                             [] w.event_type = "order_modified" -> "MODIFY"
                             [] w.event_type = "order_cancelled" -> "CANCEL"
                             [] w.event_type = "order_filled" -> "FILL")
        /\ e.exchange = (IF u(w.exchange) = "BSE" THEN "B"
                         ELSE IF u(w.exchange) = "MCX" THEN "M" ELSE "N")
        /\ e.exchange_type = (IF u(w.segment) \in {"FO", "FUTURES", "OPTIONS"}
                              THEN "D" ELSE "C")
        /\ u(w.order_type) \in {"MARKET", "MKT"} => e.order_type = "MARKET"
        /\ u(w.order_type) \in {"LIMIT", "LMT"} => e.order_type = "LIMIT"
        /\ u(w.order_type) \in {"SL", "STOPLOSS"} => e.order_type = "STOP_LOSS"
        /\ u(w.order_type) \in {"SLM", "SL-M"} => e.order_type = "STOP_LOSS_MARKET"
        /\ e.is_intraday = (u(w.product) \in {"INTRADAY", "MIS", "BO", "CO"})

RECURSIVE LatestPut(_, _, _, _)
LatestPut(log, n, mid, f) ==
    IF n = 0 THEN 0
    ELSE IF log[n].m = mid /\ log[n].op = "delete" THEN 0
    ELSE IF log[n].m = mid /\ log[n].op = "set" /\ log[n].f = f THEN log[n].oid
    ELSE LatestPut(log, n - 1, mid, f)

\* C25: used by one caller at a time, the store is a map per master order: the
\* mapping of M holds exactly one entry for each follower put since M's last
\* delete, with the id of that follower's latest put, and nothing else;
\* get_follower_order_id returns that id, or None.
C25_StoreBehavesAsMap ==
    \A mid \in StoreMasters :
        /\ \A f \in Followers :
              /\ GetFollowerOrderId(redisMap, mid, f) = LatestPut(calls, Len(calls), mid, f)
              /\ Cardinality({e \in GetOrderMapping(redisMap, mid) : e.f = f})
                     = IF LatestPut(calls, Len(calls), mid, f) = 0 THEN 0 ELSE 1
        /\ \A e \in GetOrderMapping(redisMap, mid) :
              e.f \in Followers /\ e.oid = LatestPut(calls, Len(calls), mid, e.f)

\* A follower was put twice with different ids and another follower once.
C25_PutTwiceReadLatest ==
    /\ Len(calls) = 3
    /\ \A i \in 1..3 : calls[i].op = "set" /\ calls[i].m = 1
    /\ calls[1].f = calls[3].f /\ calls[1].oid # calls[3].oid
    /\ calls[2].f # calls[1].f
    /\ GetFollowerOrderId(redisMap, 1, calls[1].f) = calls[3].oid
    /\ Cardinality(GetOrderMapping(redisMap, 1)) = 2

\* C26: the broker calls in flight from the worker never number more than
\* MAX_CONCURRENT_ORDERS, however many followers the master has.
C26_InFlightCapped == gate.wire <= MaxConcurrentOrders

\* C27: within one second the worker sends the broker at most
\* IIFL_RATE_LIMIT_PER_SECOND requests.
C27_RateCapped == gate.window <= RateLimitPerSecond

\* C29: the follower quantity follows the relationship's copy strategy:
\* FIXED_RATIO floor(qty * ratio); PERCENTAGE floor((balance * percentage / 100)
\* / price) for a positive price and the master's quantity otherwise;
\* FIXED_QUANTITY the relationship's fixed_quantity.
C29_QuantityFollowsStrategy ==
    /\ calc.strategy = "FIXED_RATIO" => calc.out = (calc.qty * calc.ratio) \div 100
    /\ calc.strategy = "PERCENTAGE" =>
          calc.out = IF calc.price > 0
                     THEN (calc.balance * calc.percentage) \div (100 * calc.price)
                     ELSE calc.qty
    /\ calc.strategy = "FIXED_QUANTITY" => calc.out = calc.fixed_quantity

HandlingFill == wpc # "idle" /\ stream[cur].kind = "order.filled"

\* C28: an order_filled webhook is not put on the bus; while the worker handles
\* an order.filled event the broker sees no call and no follower Order is
\* created, and the handling ends with an ack.
C28_FillNeverTrades ==
    [][/\ \A w \in FillPayloads, dt \in 0..1 :
             Webhook(w, dt, "ok") => stream' = stream /\ broker' = broker
       /\ HandlingFill =>
             /\ broker' = broker
             /\ FollowerOrderIds(orders') = FollowerOrderIds(orders)
             /\ (wpc' = "idle" /\ ~WorkerCrash) => stream'[cur].reply = "ack"]_vars

\* A fill of an order that has a follower order mapped was acked.
C28_FillAcked ==
    \E i \in 1..Len(stream) :
        /\ stream[i].kind = "order.filled" /\ stream[i].st = "acked"
        /\ GetOrderMapping(redisMap, stream[i].mid) # {}

\* C30: handling a MODIFY event with a mapping, every mapped follower order gets
\* exactly one modify_order call; its Order takes the event's price if that call
\* succeeded and stays as it was otherwise; no other Order and no other field
\* changes; the handler goes on to the next entry after a failure and the event
\* is acked.
C30_ModifyOncePerMappedOrder ==
    [][(wpc = "modify" /\ ~WorkerCrash) =>
          /\ queue' # queue =>
                \E e \in queue :
                    /\ queue' = queue \ {e}
                    /\ broker'.modify[e.f] = broker.modify[e.f] + 1
                    /\ broker'.placed = broker.placed /\ broker'.cancel = broker.cancel
                    /\ \A o \in orders :
                          \E n \in orders' :
                              /\ n.id = o.id /\ n.qty = o.qty /\ n.status = o.status
                              /\ n.symbol = o.symbol /\ n.filled = o.filled
                              /\ n.price \in {o.price, stream[cur].price}
                              /\ n.price # o.price => o.id = e.oid
                    /\ \A n \in orders' : \E o \in orders : o.id = n.id
                    /\ wpc' = "modify"
          /\ wpc' = "idle" => queue = {} /\ stream'[cur].reply = "ack"]_vars

\* C31: handling a CANCEL event with a mapping, every mapped follower order gets
\* exactly one cancel_order call; its Order becomes CANCELLED only in the step
\* whose cancel_order call was made, and no other Order and no other field
\* changes; the event is acked when the loop is over.
C31_CancelOncePerMappedOrder ==
    [][(wpc = "cancel" /\ ~WorkerCrash) =>
          /\ queue' # queue =>
                \E e \in queue :
                    /\ queue' = queue \ {e}
                    /\ broker'.cancel[e.f] = broker.cancel[e.f] + 1
                    /\ broker'.placed = broker.placed /\ broker'.modify = broker.modify
                    /\ \A o \in orders :
                          \E n \in orders' :
                              /\ n.id = o.id /\ n.qty = o.qty /\ n.price = o.price
                              /\ n.symbol = o.symbol /\ n.filled = o.filled
                              /\ n.status \in {o.status, "CANCELLED"}
                              /\ n.status # o.status => o.id = e.oid
                    /\ \A n \in orders' : \E o \in orders : o.id = n.id
                    /\ wpc' = "cancel"
          /\ wpc' = "idle" => queue = {} /\ stream'[cur].reply = "ack"]_vars

TerminalStates == {"FILLED", "CANCELLED", "REJECTED", "FAILED"}

\* C32: once a follower Order is in a terminal state (FILLED, CANCELLED,
\* REJECTED, FAILED), no step of the worker makes a modify_order or cancel_order
\* call for that follower's order or changes the row's price or status.
C32_TerminalOrderUntouched ==
    [][\A o \in orders :
          (~o.isMaster /\ o.committed /\ o.status \in TerminalStates) =>
             /\ broker'.modify[o.user] = broker.modify[o.user]
             /\ broker'.cancel[o.user] = broker.cancel[o.user]
             /\ \A n \in orders' :
                   n.id = o.id => n.price = o.price /\ n.status = o.status]_vars

\* The handler has ended in this step, by returning or by raising.
Answered == wpc # "idle" /\ wpc' = "idle" /\ ~WorkerCrash

\* C33: every delivery that process_order_event finishes is answered with one
\* reply, ack or nak: nak when the payload does not parse and when the handler
\* raised, ack in every other case; a NEW whose master Order is missing is acked
\* with no broker call and no row written.
C33_OneReplyPerDelivery ==
    [][/\ wpc # "idle" /\ wpc' # "idle" => stream'[cur].reply = "none"
       /\ Answered =>
             /\ stream[cur].reply = "none"
             /\ stream'[cur].reply \in {"ack", "nak"}
             /\ stream'[cur].reply = "nak" <=>
                   \/ ~ParseOrderEvent(stream[cur])
                   \/ NewAuditCommitFails
             /\ (stream[cur].kind = "order.new" /\ GetOrder(orders, stream[cur].mid) = {}) =>
                   /\ stream'[cur].reply = "ack"
                   /\ broker' = broker /\ orders' = orders /\ maps' = maps]_vars

\* A NEW of a missing master Order has been acked.
MissingMasterAcked ==
    \E i \in 1..Len(stream) :
        /\ stream[i].kind = "order.new" /\ stream[i].mid = MissingMasterId
        /\ stream[i].reply = "ack"

\* A handler raised and its message was nacked, and data that does not parse
\* was nacked.
C33_RaisedAndUnparsedNacked ==
    /\ \E i \in 1..Len(stream) : stream[i].kind = NotJson /\ stream[i].reply = "nak"
    /\ \E i \in 1..Len(stream) : stream[i].kind = "order.new" /\ stream[i].reply = "nak"

\* C34: within one call of a broker-client method the wrapped function is
\* invoked at most 3 times; a call that has used its attempts has ended, raising
\* the last exception; the i-th sleep lasts min(base_delay * 2^(i-1), 30 s) and
\* never more than 30 s.
C34_AtMostThreeAttempts ==
    /\ client.sent <= 3
    /\ client.pc = "running" => client.sent <= MaxRetries(client.op)
    /\ client.pc = "raised" => client.out # "none"
    /\ \A i \in 1..Len(client.slept) :
          /\ client.slept[i] <= MaxDelay
          /\ \/ client.slept[i] = BaseDelay(client.op) * (2 ^ (i - 1))
             \/ client.slept[i] = MaxDelay /\ BaseDelay(client.op) * (2 ^ (i - 1)) >= MaxDelay

\* C35: the breaker goes from closed to open only when the last
\* failure_threshold calls that ended have all failed: a call that returns
\* while the breaker is closed starts the count again.
C35_OpensAfterConsecutiveFailures ==
    [][(breaker.state = "closed" /\ breaker'.state = "open") =>
          breaker'.streak >= FailureThreshold]_vars

\* C36: no call reaches func while the breaker is open and cooling down; a call
\* made once the cool-down is over goes through as a half-open trial; when a
\* trial returns the breaker is closed with failure_count 0, and when a trial
\* fails the breaker is open.
C36_HalfOpenTrial ==
    [][/\ (breaker.state = "open" /\ ~CoolDownOver(breaker)) =>
             breaker'.invoked = breaker.invoked
       /\ \A c \in BreakerCallers :
             /\ (breaker.state = "open" /\ CoolDownOver(breaker)
                 /\ breaker'.out[c] # breaker.out[c] /\ breaker.pc[c] = "idle") =>
                   /\ breaker'.state = "half_open"
                   /\ breaker'.pc[c] = "running" /\ breaker'.trial[c]
             /\ (breaker.pc[c] = "running" /\ breaker.trial[c]
                 /\ breaker'.pc[c] = "idle") =>
                   /\ breaker'.out[c] = "ok" =>
                         breaker'.state = "closed" /\ breaker'.failure_count = 0
                   /\ breaker'.out[c] = "expected" => breaker'.state = "open"]_vars

\* The follower's task of the running fan-out still has its Order in hand.
TaskUnderWay(f) ==
    wpc = "fanout" /\ task[f].pc \in {"flushed", "read", "mapped"}

\* C37: a follower Order is durable only together with the SUCCESS OrderMap row
\* of its own task: every committed follower Order whose task is over has a
\* committed SUCCESS OrderMap row for the same master order and follower.
C37_OrderCommittedWithItsMap ==
    \A o \in orders :
        (~o.isMaster /\ o.committed /\ ~TaskUnderWay(o.user)) =>
            SuccessMaps(o.master, o.user) # {}

\* C38: once stop() has begun the worker starts on no further message; the
\* broker client is closed only when no handler is in flight; and no task makes
\* a request on the closed client.
C38_CooperativeShutdown ==
    [][/\ shut.pc = "stopping" => ~(wpc = "idle" /\ wpc' = "recv")
       /\ (~shut.closed /\ shut'.closed) => wpc = "idle"
       /\ shut'.used = shut.used]_vars

\* C39: every entry of the cache mapping order:map:{M} names a follower Order
\* that is committed with master_order_id = M and has a SUCCESS OrderMap row;
\* when a fan-out is over, the followers in the cache mapping are the followers
\* with a SUCCESS OrderMap row for M.
C39_CacheAgreesWithDatabase ==
    /\ \A e \in redisMap :
          /\ \E o \in orders :
                o.id = e.oid /\ o.committed /\ ~o.isMaster /\ o.master = e.m /\ o.user = e.f
          /\ SuccessMaps(e.m, e.f) # {}
    /\ wpc = "audit" =>
          {e.f : e \in GetOrderMapping(redisMap, CurMid)} =
          {f \in Followers : SuccessMaps(CurMid, f) # {}}

\* C40: the getters hand no caller an instance whose connect() has not
\* returned, neither while another caller's connect() is under way nor after a
\* connect() that raised.
C40_OnlyConnectedHandedOver ==
    \A s \in Services, c \in Getters : svc[s].got[c] # "unconnected"

====
